---------------------------- MODULE Spec2Model ----------------------------
(***************************************************************************)
(* Model of src/main.py: the Streamlit script that reads an uploaded       *)
(* climate table, filters it, applies the RCP scenarios with               *)
(* apply_rcp_scenario and renders charts and an Excel export.              *)
(*                                                                         *)
(* Numbers are fixed point.  Temperatures are whole degrees C and          *)
(* precipitation whole mm in the input; the coefficients "temp" and        *)
(* "precip" are in 1/1000, "variability" in 1/100, the sine in 1/1000.     *)
(* A standard normal draw is in 1/100 of a standard deviation.  A          *)
(* projected temperature is in 1e-4 degree, a projected precipitation in   *)
(* 1e-8 mm.  The products are exact, nothing is rounded but the sine.      *)
(***************************************************************************)
EXTENDS Integers, Sequences, FiniteSets, TLC

VARIABLES
    pc,           \* position of the script run (src/main.py:71-157)
    df,           \* the table read from the uploaded file
    localite,     \* st.selectbox value
    year_range,   \* st.slider value <<lo, hi>>
    scenarios,    \* st.multiselect value, in selection order
    df_filtered,  \* the filtered series handed to every call
    results,      \* the list being built by the comprehension of line 105
    projections,  \* pd.concat of results
    calls,        \* per call of this run: scenario, base_year, years
    rendered,     \* number of st.plotly_chart calls of this run
    exported,     \* whether st.download_button was reached in this run
    error,        \* text given to st.error in this run, or None
    data,         \* direct calls: the caller's series
    scenario,     \* direct calls: the scenario argument
    out           \* direct calls: outcome of the latest call

vars == <<pc, df, localite, year_range, scenarios, df_filtered, results,
          projections, calls, rendered, exported, error,
          data, scenario, out>>

appVars == <<pc, df, localite, year_range, scenarios, df_filtered, results,
             projections, calls, rendered, exported, error>>

engineVars == <<data, scenario, out>>

---------------------------------------------------------------------------
(* Bounds of the model *)

\* rows of an uploaded sheet, and of the series of a direct call
MaxRows == 2

\* rows times calls: a script run is explored when the rows of the sheet
\* times the selected scenarios stay within it, a further direct call on a
\* series when two calls on it do
MaxCells == 4

---------------------------------------------------------------------------
(* Values *)

None == "None"

NaN == "NaN"

required_columns ==
    {"localite", "date", "temp-max", "temp-moy", "temp-min", "precipitation"}

ScenarioNames == {"RCP2.6", "RCP4.5", "RCP8.5"}

\* The dict literal of apply_rcp_scenario, temp and precip in 1/1000,
\* variability in 1/100.
adjustment ==
    [s \in ScenarioNames |->
        CASE s = "RCP2.6" -> [temp |-> 6,  precip |-> 3,  variability |-> 8]
          [] s = "RCP4.5" -> [temp |-> 15, precip |-> 5,  variability |-> 12]
          [] s = "RCP8.5" -> [temp |-> 30, precip |-> 10, variability |-> 18]]

TempColumn(t) ==
    CASE t = "max" -> "temp-max" [] t = "moy" -> "temp-moy" [] t = "min" -> "temp-min"

ProjectedColumn(t) ==
    CASE t = "max" -> "temp-max_projected"
      [] t = "moy" -> "temp-moy_projected"
      [] t = "min" -> "temp-min_projected"

---------------------------------------------------------------------------
(* Calendar: what .dt.year, .dt.month_name() and .dt.dayofyear compute *)

IsLeap(y) == (y % 4 = 0 /\ y % 100 # 0) \/ y % 400 = 0

DaysInMonth(y, m) ==
    CASE m \in {1, 3, 5, 7, 8, 10, 12} -> 31
      [] m \in {4, 6, 9, 11} -> 30
      [] m = 2 -> IF IsLeap(y) THEN 29 ELSE 28

\* A cell that pd.to_datetime parses
ValidDate(d) == d.m \in 1..12 /\ d.d >= 1 /\ d.d <= DaysInMonth(d.y, d.m)

RECURSIVE DaysBefore(_, _)
DaysBefore(y, m) == IF m = 1 THEN 0 ELSE DaysBefore(y, m - 1) + DaysInMonth(y, m - 1)

DayOfYear(d) == DaysBefore(d.y, d.m) + d.d

MonthName(m) ==
    <<"January", "February", "March", "April", "May", "June", "July",
      "August", "September", "October", "November", "December">>[m]

\* round(1000 * sin(2 * pi * k / 365)) for k = 1 .. 366
SinTable ==
  << 17, 34, 52, 69, 86, 103, 120, 137, 154, 171, 188, 205, 222, 239, 255, 272,
     288, 305, 321, 338, 354, 370, 386, 401, 417, 433, 448, 464, 479, 494, 509, 523,
     538, 552, 567, 581, 595, 608, 622, 635, 649, 662, 674, 687, 699, 712, 724, 735,
     747, 758, 769, 780, 791, 801, 812, 821, 831, 841, 850, 859, 867, 876, 884, 892,
     900, 907, 914, 921, 928, 934, 940, 946, 951, 956, 961, 966, 970, 974, 978, 981,
     984, 987, 990, 992, 994, 996, 997, 998, 999, 1000, 1000, 1000, 1000, 999, 998, 997,
     995, 993, 991, 989, 986, 983, 980, 976, 972, 968, 963, 959, 954, 948, 943, 937,
     931, 924, 918, 911, 903, 896, 888, 880, 872, 863, 854, 845, 836, 826, 817, 806,
     796, 786, 775, 764, 753, 741, 730, 718, 706, 693, 681, 668, 655, 642, 629, 615,
     602, 588, 574, 560, 545, 531, 516, 501, 486, 471, 456, 441, 425, 409, 394, 378,
     362, 346, 329, 313, 297, 280, 264, 247, 230, 214, 197, 180, 163, 146, 129, 112,
     95, 77, 60, 43, 26, 9, -9, -26, -43, -60, -77, -95, -112, -129, -146, -163,
     -180, -197, -214, -230, -247, -264, -280, -297, -313, -329, -346, -362, -378, -394, -409, -425,
     -441, -456, -471, -486, -501, -516, -531, -545, -560, -574, -588, -602, -615, -629, -642, -655,
     -668, -681, -693, -706, -718, -730, -741, -753, -764, -775, -786, -796, -806, -817, -826, -836,
     -845, -854, -863, -872, -880, -888, -896, -903, -911, -918, -924, -931, -937, -943, -948, -954,
     -959, -963, -968, -972, -976, -980, -983, -986, -989, -991, -993, -995, -997, -998, -999, -1000,
     -1000, -1000, -1000, -999, -998, -997, -996, -994, -992, -990, -987, -984, -981, -978, -974, -970,
     -966, -961, -956, -951, -946, -940, -934, -928, -921, -914, -907, -900, -892, -884, -876, -867,
     -859, -850, -841, -831, -821, -812, -801, -791, -780, -769, -758, -747, -735, -724, -712, -699,
     -687, -674, -662, -649, -635, -622, -608, -595, -581, -567, -552, -538, -523, -509, -494, -479,
     -464, -448, -433, -417, -401, -386, -370, -354, -338, -321, -305, -288, -272, -255, -239, -222,
     -205, -188, -171, -154, -137, -120, -103, -86, -69, -52, -34, -17, 0, 17 >>

\* 1000 * np.sin(2 * np.pi * dayofyear / 365)
SinMilli(dayofyear) == SinTable[dayofyear]

---------------------------------------------------------------------------
(* Rows and tables.  A row is a function from column names to cells. *)

Date(y, m, d) == [y |-> y, m |-> m, d |-> d]

Obs(loc, date, tmax, tmoy, tmin, precip) ==
    [c \in required_columns |->
        CASE c = "localite" -> loc
          [] c = "date" -> date
          [] c = "temp-max" -> tmax
          [] c = "temp-moy" -> tmoy
          [] c = "temp-min" -> tmin
          [] c = "precipitation" -> precip]

\* Rows an uploaded sheet is made of: two localities, two years, a frost
\* day, a dry day, and a cell that is no calendar date.
ObservationPool ==
    { Obs("A", Date(2020, 1, 1), 10, 5, -5, 10),
      Obs("A", Date(2021, 4, 1), 20, 15, 10, 0),
      Obs("B", Date(2021, 10, 1), 15, 10, 5, 12),
      Obs("B", Date(2021, 13, 1), 15, 10, 5, 12) }

SetColumn(row, c, v) ==
    [k \in (DOMAIN row) \cup {c} |-> IF k = c THEN v ELSE row[k]]

Restrict(row, cols) == [k \in cols |-> row[k]]

Min(S) == CHOOSE x \in S : \A y \in S : x <= y

Max(S) == CHOOSE x \in S : \A y \in S : x >= y

ColumnValues(rows, c) == {rows[i][c] : i \in 1..Len(rows)}

---------------------------------------------------------------------------
(* np.random.normal(0, scen["variability"], len(df)), line 59.  The script *)
(* never seeds the stream, so the values of a call are an input of the     *)
(* call: z[c][i] is the standard normal draw of channel c (1 max, 2 moy,   *)
(* 3 min) for row i, in 1/100 of a standard deviation, and the call adds   *)
(* variability * z[c][i].  Draws are independent of one another.           *)

\* sample values of a draw: both signs, one beyond 1.5 standard deviations
DrawValues == {-163, 94}

\* every combination of the sample values for a frame of n rows
Draws(n) == [1..3 -> [1..n -> DrawValues]]

---------------------------------------------------------------------------
(* apply_rcp_scenario, src/main.py:11-69 *)

\* A variant that hands the rows back in reverse order
CopyReversed(frame) == [i \in 1..Len(frame) |-> frame[Len(frame) + 1 - i]]

\* line 12: df = data.copy()
Copy(frame) == frame

\* line 12 again: df is a copy, so the column assignments of lines 57-68
\* do not reach the frame the caller holds
CallerDataAliased(frame, written) == written

CallerData(frame, written) == frame

\* line 13: Series.min() of an empty column is NaN, it does not raise
BaseYear(frame) ==
    IF Len(frame) = 0 THEN NaN ELSE Min(ColumnValues(frame, "Year"))

\* line 52
Years(frame, base_year) == [i \in 1..Len(frame) |-> frame[i]["Year"] - base_year]

\* line 53: adjustment[scenario], a KeyError for a name that is no key
ScenLookupDefault(name) ==
    IF name \in DOMAIN adjustment
    THEN [found |-> TRUE, scen |-> adjustment[name]]
    ELSE [found |-> TRUE, scen |-> adjustment["RCP8.5"]]

ScenLookup(name) ==
    IF name \in DOMAIN adjustment
    THEN [found |-> TRUE, scen |-> adjustment[name]]
    ELSE [found |-> FALSE, scen |-> adjustment["RCP8.5"]]

\* lines 57-60 for one cell: observed * (1 + temp * years) + noise, in
\* 1e-4 degree; z is the standard normal draw in 1/100
TempProjected(observed, scen, years, z) ==
    observed * (1000 + scen.temp * years) * 10 + scen.variability * z

\* lines 63-66 for one row, in 1e-8 mm
PrecipProjected(row, scen, years) ==
    row["precipitation"] * (1000 + scen.precip * years)
        * (100000 + scen.variability * SinMilli(DayOfYear(row["date"])))

\* lines 56-68 for one row; zmax, zmoy, zmin are the row's three draws
ProjectRow(row, years, scen, name, zmax, zmoy, zmin) ==
    LET a == SetColumn(row, "temp-max_projected",
                       TempProjected(row["temp-max"], scen, years, zmax))
        b == SetColumn(a, "temp-moy_projected",
                       TempProjected(row["temp-moy"], scen, years, zmoy))
        c == SetColumn(b, "temp-min_projected",
                       TempProjected(row["temp-min"], scen, years, zmin))
        d == SetColumn(c, "precipitation_projected",
                       PrecipProjected(row, scen, years))
    IN  SetColumn(d, "Scenario", name)

Raised(kind, frame, base_year, years) ==
    [status |-> "raised", error |-> kind, df |-> <<>>, data |-> frame,
     base_year |-> base_year, years |-> years]

\* The whole function.  The result tells what the caller sees: whether the
\* call returned or raised, the returned frame, the caller's own frame
\* after the call; base_year and years are the locals of lines 13 and 52.
\* z holds the values the three channels draw, len(df) each (line 59); a
\* call that raises at line 53 draws nothing.
ApplyRcpScenario(frame, name, z) ==
    LET d0 == Copy(frame)
        base_year == BaseYear(d0)
        years == Years(d0, base_year)
        look == ScenLookup(name)
        n == Len(d0)
    IN  IF ~look.found
        THEN Raised("KeyError", CallerData(frame, d0), base_year, years)
        ELSE LET d1 == [i \in 1..n |->
                          ProjectRow(d0[i], years[i], look.scen, name,
                                     z[1][i], z[2][i], z[3][i])]
             IN  [status |-> "returned", error |-> None, df |-> d1,
                  data |-> CallerData(frame, d1),
                  base_year |-> base_year, years |-> years]

---------------------------------------------------------------------------
(* Lines 82-84 for one row: the derived columns Year and Month *)

PreprocessRow(row) ==
    SetColumn(SetColumn(row, "Year", row["date"].y), "Month", MonthName(row["date"].m))

HasAnyRequiredColumn(table) == \E col \in required_columns : col \in table.columns

\* line 78
HasRequiredColumns(table) == \A col \in required_columns : col \in table.columns

\* lines 101-102
Filter(table, loc, range) ==
    SelectSeq(table.rows,
              LAMBDA r : r["localite"] = loc /\ range[1] <= r["Year"] /\ r["Year"] <= range[2])

RECURSIVE Flatten(_)
Flatten(frames) ==
    IF Len(frames) = 0 THEN <<>> ELSE frames[1] \o Flatten(Tail(frames))

\* A variant that answers an empty frame for an empty list
ConcatLenient(frames) == [ok |-> TRUE, df |-> Flatten(frames)]

\* A variant that keeps the last frame only
ConcatLast(frames) ==
    IF Len(frames) = 0
    THEN [ok |-> FALSE, df |-> <<>>]
    ELSE [ok |-> TRUE, df |-> frames[Len(frames)]]

\* line 105: pd.concat raises ValueError("No objects to concatenate") for
\* an empty list, and otherwise stacks the frames in list order
Concat(frames) ==
    IF Len(frames) = 0
    THEN [ok |-> FALSE, df |-> <<>>]
    ELSE [ok |-> TRUE, df |-> Flatten(frames)]

---------------------------------------------------------------------------
(* Inputs *)

\* uploaded sheets: one to MaxRows rows (the widgets of lines 89-94 are
\* taken to answer on every such sheet, a single year included)
Tables == UNION {[1..n -> ObservationPool] : n \in 1..MaxRows}

\* what st.multiselect can return: the chosen options, each once, in the
\* order they were chosen
ScenarioSelections ==
    {s \in UNION {[1..n -> ScenarioNames] : n \in 0..3} :
        \A i, j \in 1..Len(s) : i # j => s[i] # s[j]}

\* series for direct calls: preprocessed rows, none to MaxRows of them
Series ==
    LET valid == {PreprocessRow(r) : r \in {x \in ObservationPool : ValidDate(x["date"])}}
    IN  UNION {[1..n -> valid] : n \in 0..MaxRows}

\* scenario arguments for direct calls: the three keys and a name that is none
ScenarioArgs == ScenarioNames \cup {"RCP9.9"}

NoTable == [columns |-> {}, rows |-> <<>>]

NotCalled ==
    [status |-> "none", error |-> None, df |-> <<>>, data |-> <<>>,
     base_year |-> NaN, years |-> <<>>]

---------------------------------------------------------------------------
(* One run of the script, src/main.py:71-157 *)

AppIdle ==
    /\ pc = "idle"
    /\ df = NoTable
    /\ localite = None
    /\ year_range = <<0, 0>>
    /\ scenarios = <<>>
    /\ df_filtered = <<>>
    /\ results = <<>>
    /\ projections = <<>>
    /\ calls = <<>>
    /\ rendered = 0
    /\ exported = FALSE
    /\ error = None

Init ==
    /\ AppIdle
    /\ data = <<>>
    /\ scenario = None
    /\ out = NotCalled

\* lines 71-75: a file is uploaded and read_excel parses it
Upload ==
    /\ pc = "idle"
    /\ \E cols \in SUBSET required_columns, t \in Tables :
          df' = [columns |-> cols,
                 rows |-> [i \in 1..Len(t) |-> Restrict(t[i], cols)]]
    /\ pc' = "check"
    /\ UNCHANGED <<localite, year_range, scenarios, df_filtered, results,
                   projections, calls, rendered, exported, error>>
    /\ UNCHANGED engineVars

\* line 75 raising (the file is no workbook), caught at 156-157
UploadUnreadable ==
    /\ pc = "idle"
    /\ error' = "Erreur: read_excel"
    /\ pc' = "end"
    /\ UNCHANGED <<df, localite, year_range, scenarios, df_filtered, results,
                   projections, calls, rendered, exported>>
    /\ UNCHANGED engineVars

\* lines 77-80
CheckColumns ==
    /\ pc = "check"
    /\ IF HasRequiredColumns(df)
       THEN /\ pc' = "preprocess"
            /\ error' = error
       ELSE /\ error' = "Colonnes manquantes"
            /\ pc' = "end"
    /\ UNCHANGED <<df, localite, year_range, scenarios, df_filtered, results,
                   projections, calls, rendered, exported>>
    /\ UNCHANGED engineVars

\* lines 82-84; a missing column or an unparseable cell raises, 156-157
Preprocess ==
    /\ pc = "preprocess"
    /\ IF /\ "date" \in df.columns
          /\ \A i \in 1..Len(df.rows) : ValidDate(df.rows[i]["date"])
       THEN /\ df' = [columns |-> df.columns \cup {"Year", "Month"},
                      rows |-> [i \in 1..Len(df.rows) |-> PreprocessRow(df.rows[i])]]
            /\ pc' = "select"
            /\ error' = error
       ELSE /\ error' = "Erreur: date"
            /\ pc' = "end"
            /\ df' = df
    /\ UNCHANGED <<localite, year_range, scenarios, df_filtered, results,
                   projections, calls, rendered, exported>>
    /\ UNCHANGED engineVars

\* lines 87-98: the three widgets
Select ==
    /\ pc = "select"
    /\ IF "localite" \in df.columns
       THEN LET ys == ColumnValues(df.rows, "Year")
            IN  /\ localite' \in ColumnValues(df.rows, "localite")
                /\ \E lo \in Min(ys)..Max(ys), hi \in Min(ys)..Max(ys) :
                      /\ lo <= hi
                      /\ year_range' = <<lo, hi>>
                /\ scenarios' \in ScenarioSelections
                /\ Len(df.rows) * Len(scenarios') <= MaxCells
                /\ pc' = "filter"
                /\ error' = error
       ELSE /\ error' = "Erreur: localite"
            /\ pc' = "end"
            /\ UNCHANGED <<localite, year_range, scenarios>>
    /\ UNCHANGED <<df, df_filtered, results, projections, calls, rendered,
                   exported>>
    /\ UNCHANGED engineVars

\* lines 101-102
FilterData ==
    /\ pc = "filter"
    /\ df_filtered' = Filter(df, localite, year_range)
    /\ pc' = "apply"
    /\ UNCHANGED <<df, localite, year_range, scenarios, results, projections,
                   calls, rendered, exported, error>>
    /\ UNCHANGED engineVars

\* line 105, one step of the comprehension: the next scenario's call
Apply ==
    /\ pc = "apply"
    /\ Len(results) < Len(scenarios)
    /\ \E z \in Draws(Len(df_filtered)) :
       LET name == scenarios[Len(results) + 1]
       IN  \E r \in {ApplyRcpScenario(df_filtered, name, z)} :
           /\ calls' = Append(calls, [scenario |-> name, status |-> r.status,
                                      base_year |-> r.base_year, years |-> r.years])
           /\ df_filtered' = r.data
           /\ IF r.status = "returned"
              THEN /\ results' = Append(results, r.df)
                   /\ pc' = pc
                   /\ error' = error
              ELSE /\ error' = "Erreur: " \o r.error
                   /\ pc' = "end"
                   /\ results' = results
    /\ UNCHANGED <<df, localite, year_range, scenarios, projections, rendered,
                   exported>>
    /\ UNCHANGED engineVars

\* line 105, pd.concat of the finished list
ConcatResults ==
    /\ pc = "apply"
    /\ Len(results) = Len(scenarios)
    /\ LET c == Concat(results)
       IN  IF c.ok
           THEN /\ projections' = c.df
                /\ pc' = "charts"
                /\ error' = error
           ELSE /\ error' = "Erreur: No objects to concatenate"
                /\ pc' = "end"
                /\ projections' = projections
    /\ UNCHANGED <<df, localite, year_range, scenarios, df_filtered, results,
                   calls, rendered, exported>>
    /\ UNCHANGED engineVars

ChartError == "Erreur: chart"

ExportError == "Erreur: export"

\* lines 112-140, one tab: the figure is built and st.plotly_chart shows it
\* (line 120, then 129, then 140)
RenderChart ==
    /\ pc = "charts"
    /\ rendered < 3
    /\ rendered' = rendered + 1
    /\ UNCHANGED <<pc, df, localite, year_range, scenarios, df_filtered, results,
                   projections, calls, exported, error>>
    /\ UNCHANGED engineVars

\* lines 112-140, one tab raising (the widget, px.line, px.area, px.box or
\* st.plotly_chart), caught at 156-157: the charts already shown stay, the
\* rest of the try is skipped
RenderChartFails ==
    /\ pc = "charts"
    /\ rendered < 3
    /\ error' = ChartError
    /\ pc' = "end"
    /\ UNCHANGED <<df, localite, year_range, scenarios, df_filtered, results,
                   projections, calls, rendered, exported>>
    /\ UNCHANGED engineVars

\* lines 143-154: the workbook is written and st.download_button is reached
Export ==
    /\ pc = "charts"
    /\ rendered = 3
    /\ exported' = TRUE
    /\ pc' = "end"
    /\ UNCHANGED <<df, localite, year_range, scenarios, df_filtered, results,
                   projections, calls, rendered, error>>
    /\ UNCHANGED engineVars

\* lines 145-147 raising (pd.ExcelWriter with engine='xlsxwriter', or
\* to_excel), caught at 156-157: three charts, an error, no download
ExportFails ==
    /\ pc = "charts"
    /\ rendered = 3
    /\ error' = ExportError
    /\ pc' = "end"
    /\ UNCHANGED <<df, localite, year_range, scenarios, df_filtered, results,
                   projections, calls, rendered, exported>>
    /\ UNCHANGED engineVars

\* Streamlit runs the script again from the top on the next interaction
Rerun ==
    /\ pc = "end"
    /\ pc' = "idle"
    /\ df' = NoTable
    /\ localite' = None
    /\ year_range' = <<0, 0>>
    /\ scenarios' = <<>>
    /\ df_filtered' = <<>>
    /\ results' = <<>>
    /\ projections' = <<>>
    /\ calls' = <<>>
    /\ rendered' = 0
    /\ exported' = FALSE
    /\ error' = None
    /\ UNCHANGED engineVars

Next ==
    \/ Upload
    \/ UploadUnreadable
    \/ CheckColumns
    \/ Preprocess
    \/ Select
    \/ FilterData
    \/ Apply
    \/ ConcatResults
    \/ RenderChart
    \/ RenderChartFails
    \/ Export
    \/ ExportFails
    \/ Rerun

Spec == Init /\ [][Next]_vars

---------------------------------------------------------------------------
(* Direct calls of apply_rcp_scenario on a series and a scenario name *)

InitEngine ==
    /\ AppIdle
    /\ data \in Series
    /\ scenario \in ScenarioArgs
    /\ out = NotCalled

\* apply_rcp_scenario(data, scenario), the first call on the series: the
\* caller keeps the outcome and its own frame as the call left it
Call ==
    /\ out.status = "none"
    /\ \E z \in Draws(Len(data)) :
          out' = ApplyRcpScenario(data, scenario, z)
    /\ data' = out'.data
    /\ UNCHANGED scenario
    /\ UNCHANGED appVars

\* a further call on the same series, with any scenario name and draws of
\* its own, whatever the calls before it gave
Recall ==
    /\ out.status # "none"
    /\ 2 * Len(data) <= MaxCells
    /\ \E s \in ScenarioArgs, z \in Draws(Len(data)) :
          /\ scenario' = s
          /\ out' = ApplyRcpScenario(data, s, z)
    /\ data' = out'.data
    /\ UNCHANGED appVars

NextEngine == Call \/ Recall

SpecEngine == InitEngine /\ [][NextEngine]_vars

---------------------------------------------------------------------------
(* Properties of a direct call, checked under SpecEngine *)

Called == out.status # "none"

\* C1: for a non-empty series and one of the three scenario names the call
\* returns as many records as it was given, and the i-th returned record is
\* the i-th input record with the projected columns added, its projected
\* values being those of the i-th input record.
C1_ShapeAndOrder ==
    (Called /\ Len(data) > 0 /\ scenario \in ScenarioNames) =>
        /\ out.status = "returned"
        /\ Len(out.df) = Len(data)
        /\ \A i \in 1..Len(data) :
              /\ Restrict(out.df[i], DOMAIN data[i]) = data[i]
              /\ out.df[i]["precipitation_projected"]
                    = PrecipProjected(data[i], adjustment[scenario], out.years[i])
              /\ DOMAIN out.df[i] =
                    (DOMAIN data[i]) \cup {ProjectedColumn(t) : t \in {"max", "moy", "min"}}
                       \cup {"precipitation_projected", "Scenario"}

C1_Witness ==
    /\ Called
    /\ scenario \in ScenarioNames
    /\ Len(data) >= 2
    /\ data[1] # data[2]
    /\ out.status = "returned"
    /\ Len(out.df) = Len(data)

\* C3: for a non-empty series and a name that is none of the three, the call
\* raises the unknown-scenario error (the KeyError of line 53) and hands no
\* record back.
C3_UnknownScenario ==
    (Called /\ Len(data) > 0 /\ scenario \notin ScenarioNames) =>
        /\ out.status = "raised"
        /\ out.error = "KeyError"
        /\ out.df = <<>>

C3_Witness ==
    /\ Called
    /\ Len(data) > 0
    /\ scenario = "RCP9.9"
    /\ out.status = "raised"

\* C4: for a valid scenario name a call on an empty series fails with
\* EmptySeries and returns nothing.
C4_EmptySeriesFails ==
    (Called /\ Len(data) = 0 /\ scenario \in ScenarioNames) =>
        /\ out.status = "raised"
        /\ out.error = "EmptySeries"

\* C6 as stated: with the noise at 0 the projected temperature is
\* non-decreasing in the elapsed years, for each scenario, each channel and
\* every observed value the call accepts.
C6_TrendNonDecreasing ==
    (out.status = "returned") =>
        \A i \in 1..Len(data), t \in {"max", "moy", "min"}, s \in ScenarioNames :
            \A e1 \in 0..2, e2 \in 0..2 :
                e1 <= e2 =>
                    TempProjected(data[i][TempColumn(t)], adjustment[s], e1, 0)
                       <= TempProjected(data[i][TempColumn(t)], adjustment[s], e2, 0)

---------------------------------------------------------------------------
(* Properties of a script run, checked under Spec *)

\* line 105 has completed: the run is at the charts, or ended at or after them
ConcatDone == pc = "charts" \/ exported \/ error \in {ChartError, ExportError}

Count(frame, name) ==
    Cardinality({p \in 1..Len(frame) : frame[p]["Scenario"] = name})

Requested == {scenarios[j] : j \in 1..Len(scenarios)}

\* C2: every record a call returns carries the call's scenario name, and
\* the concatenation of the runs of k requested names has k * len(S) rows,
\* the runs one after another in request order, each requested name
\* tagging len(S) rows and no other tag present.
C2_TagsAndConcatenation ==
    /\ Len(results) <= Len(calls)
    /\ \A j \in 1..Len(calls) : calls[j].scenario = scenarios[j]
    /\ \A j \in 1..Len(results) : \A i \in 1..Len(results[j]) :
          results[j][i]["Scenario"] = scenarios[j]
    /\ ConcatDone =>
          LET n == Len(df_filtered)
              k == Len(scenarios)
          IN  /\ Len(projections) = k * n
              /\ \A j \in 1..k : \A i \in 1..n :
                    /\ projections[(j - 1) * n + i] = results[j][i]
                    /\ projections[(j - 1) * n + i]["Scenario"] = scenarios[j]
              /\ \A name \in ScenarioNames :
                    Count(projections, name) = IF name \in Requested THEN n ELSE 0

C2_Witness ==
    /\ exported
    /\ Len(scenarios) >= 2
    /\ Len(df_filtered) >= 2
    /\ Len(projections) = Len(scenarios) * Len(df_filtered)

YearsOf(frame) == {frame[i]["Year"] : i \in 1..Len(frame)}

\* C5: in every call base_year is the minimum year of the series
\* passed to it, every elapsed value is >= 0, the smallest elapsed value of
\* the call is 0, and exactly the records of the minimum year have it.
C5_BaseYearEveryCall ==
    \A k \in 1..Len(calls) :
        LET c == calls[k]
        IN  /\ Len(c.years) = Len(df_filtered)
            /\ \A i \in 1..Len(c.years) : c.years[i] >= 0
            /\ \E i \in 1..Len(c.years) : c.years[i] = 0
            /\ \A i \in 1..Len(c.years) :
                  c.years[i] = 0 <=>
                     \A y \in YearsOf(df_filtered) : df_filtered[i]["Year"] <= y

\* C8: a call leaves the caller's series as it was, whether it returns or
\* raises: during a run the filtered series stays what the filter produced,
\* every scenario is applied to it, the observation columns of each
\* returned record are those of the input record, and a call on it with any
\* name, known or not, would leave it as it is.
C8_CallLeavesInput ==
    /\ (pc = "apply" /\ Len(calls) = 0) =>
          \A s \in ScenarioArgs, z \in Draws(Len(df_filtered)) :
              ApplyRcpScenario(df_filtered, s, z).data = df_filtered
    /\ (Len(calls) > 0) =>
        /\ df_filtered = Filter(df, localite, year_range)
        /\ \A j \in 1..Len(results) :
              /\ Len(results[j]) = Len(df_filtered)
              /\ \A i \in 1..Len(df_filtered) :
                    /\ DOMAIN df_filtered[i] = df.columns
                    /\ Restrict(results[j][i], df.columns) = df_filtered[i]

C8_Witness ==
    /\ Len(calls) >= 2
    /\ Len(results) >= 2
    /\ Len(df_filtered) > 0
    /\ df_filtered = Filter(df, localite, year_range)

MissingColumns == df # NoTable /\ ~(required_columns \subseteq df.columns)

\* C9: a run on a table that lacks a required column ends with the
\* missing-columns message, calls apply_rcp_scenario never and produces no
\* chart and no export; a call happens only on a table that has them all.
C9_MissingColumnsStop ==
    /\ MissingColumns =>
          /\ pc \in {"check", "end"}
          /\ pc = "end" => error = "Colonnes manquantes"
          /\ calls = <<>>
          /\ rendered = 0
          /\ ~exported
    /\ calls # <<>> => required_columns \subseteq df.columns

C9_Witness ==
    /\ MissingColumns
    /\ pc = "end"
    /\ error = "Colonnes manquantes"
    /\ calls = <<>>

\* C10: a run on a valid table with no scenario selected makes no call,
\* fails in the concatenation and ends with an error shown, no chart and no
\* export; charts and the export exist only in runs with at least one
\* scenario whose calls all returned.
C10_EmptySelectionFails ==
    /\ (localite # None /\ scenarios = <<>>) =>
          /\ calls = <<>>
          /\ rendered = 0
          /\ ~exported
          /\ pc = "end" => error = "Erreur: No objects to concatenate"
    /\ (rendered > 0 \/ exported) =>
          /\ Len(scenarios) >= 1
          /\ Len(calls) = Len(scenarios)
          /\ \A k \in 1..Len(calls) : calls[k].status = "returned"
          /\ Len(results) = Len(scenarios)

C10_Witness ==
    /\ localite # None
    /\ scenarios = <<>>
    /\ pc = "end"
    /\ error = "Erreur: No objects to concatenate"

=============================================================================
